---- MODULE Spec2Model ----
(***************************************************************************)
(* Booking orchestration core of the flight seat reservation service.      *)
(*                                                                         *)
(* Several BookingWorkflow instances run concurrently against one flight.  *)
(* Each workflow is single-threaded; its activities are sequences of       *)
(* repository calls, each of which is one atomic statement (a SQL UPDATE,  *)
(* a Redis MULTI/EXEC pipeline or a Lua script).  One action of this       *)
(* module is one such atomic repository call together with the workflow    *)
(* code that runs before the next call.                                    *)
(*                                                                         *)
(* Seat lists are modelled as sets of seats; loops over a seat list visit  *)
(* the seats in ascending order.                                           *)
(*                                                                         *)
(* Two specifications are given.  Spec runs all workflows concurrently and *)
(* abstracts from durations: its clock stands still and a hold timer may   *)
(* fire at any moment.  TimedSpec follows one workflow along a clock, with *)
(* the API operations that start it and read its status, on a flight where *)
(* another order may already hold or own the last seat.                    *)
(***************************************************************************)
EXTENDS Integers, Sequences, FiniteSets, TLC

(***************************************************************************)
(* Bounds of the model.                                                    *)
(***************************************************************************)
NumOrders == 2          \* booking workflows started on the flight
NumSeats == 2           \* seat rows of the flight
MaxUpdates == 1         \* update-seats signals delivered in one run
TicksPerSecond == 2     \* clock ticks in one second
HoldSeconds == 2        \* seat hold duration of the model, in seconds
MaxTime == 6            \* the clock stops after this many ticks

Orders == 1..NumOrders
Seats == 1..NumSeats
NoOrder == 0            \* NULL order_id / missing lock entry

(***************************************************************************)
(* Program constants.                                                      *)
(***************************************************************************)
MaximumAttempts == 3        \* RetryPolicy of seat and order activities
maxPaymentAttempts == 3     \* manual payment retry loop

OrderStatusCreated == "CREATED"
OrderStatusSeatsReserved == "SEATS_RESERVED"
OrderStatusPaymentProcessing == "PAYMENT_PROCESSING"
OrderStatusConfirmed == "CONFIRMED"
OrderStatusFailed == "FAILED"
OrderStatusExpired == "EXPIRED"
NoRow == "NO_ROW"           \* the order row has not been inserted

SeatStatusAvailable == "available"
SeatStatusReserved == "reserved"
SeatStatusBooked == "booked"

\* Seat hold: state.expiresAt = workflow.Now(ctx).Add(15 * time.Minute), in
\* ticks of the model's clock and scaled to HoldSeconds.
HoldDuration == HoldSeconds * TicksPerSecond

\* Payment codes the proceed-to-payment signal may carry (sequences of digits).
PaymentCodes == { <<1, 2, 3, 4, 5>>, <<0, 0, 0, 0, 0>> }
NoCode == <<>>

\* Errors a workflow or an activity returns; NoError is nil.
NoError == "nil"
ErrReservationExpired == "seat reservation expired"
ErrWorkflowCanceled == "booking workflow canceled"
ErrActivity == "activity error"

\* Values of bookingState.lastError and of orders.failure_reason.
NoLastError == ""
CanceledByUser == "booking canceled by user"

VARIABLES
    pc,             \* [Orders -> position of the workflow]
    state,          \* [Orders -> bookingState of the workflow]
    err,            \* [Orders -> the error the workflow returns, its named result err]
    local,          \* [Orders -> local variables of the workflow and its activity]
    locks,          \* Redis: [Seats -> owning order or NoOrder]
    seats,          \* seats table: [Seats -> [status, order_id]]
    availableSeats, \* flights.available_seats of the flight
    orders,         \* orders table: [Orders -> [status]]
    updates,        \* update-seats signals delivered so far
    released,       \* [Orders -> <<>> or <<S>>: compensation invoked ReleaseSeats on S]
    decremented,    \* [Orders -> seats this order's ConfirmOrder took off the counter]
    lockErr,        \* [Orders -> an error of ReleaseLocks for the order was dropped]
    releaseErr,     \* [Orders -> the compensation's releaseErr is non-nil]
    now,            \* the clock, in ticks
    response,       \* reply of the API operation that has just returned
    hist,           \* [Orders -> times observed along the run of the workflow]
    lockExpiry,     \* Redis: [Seats -> instant at which the lock entry lapses]
    cfg,            \* cfg.SeatReservationTimeout, in ticks
    call,           \* the activity execution that has just ended, with its result
    signals         \* [Orders -> signals sent to the workflow that no Receive has taken]

vars == << pc, state, err, local, locks, seats, availableSeats, orders, updates,
           released, decremented, lockErr, releaseErr, now, response, hist,
           lockExpiry, cfg, call, signals >>

\* Local variables when no activity runs and no signal has been received:
\* attempt of the running activity, seats its ReleaseLocks loop has yet to
\* visit, payload of update-seats, payment code of proceed-to-payment,
\* lastPaymentErr, the error the return statement after FailOrder returns,
\* and the instant at which the pending hold timer or Sleep fires.
NoLocals ==
    [attempt |-> 1, todo |-> {}, newSeats |-> {}, paymentSignal |-> NoCode,
     lastPaymentErr |-> NoError, exitErr |-> NoError, timer |-> 0]

\* The bookingState of a workflow that has not started, and the order row
\* that has not been inserted.
NoState ==
    [seats |-> {}, status |-> OrderStatusCreated, paymentAttempts |-> 0,
     expiresAt |-> 0, lastError |-> NoLastError]
NoOrderRow ==
    [status |-> NoRow, seats |-> {}, expires_at |-> 0, failure_reason |-> NoLastError]

\* No API operation has just returned.
NoResponse == [op |-> "none"]

\* No activity execution is being looked at.
NoCall == [op |-> "none", order |-> NoOrder, err |-> NoError, again |-> FALSE]

\* Nothing has been observed of a workflow: the deadline it computed when it
\* started, and the instant at which it received proceed-to-payment.
NoHist == [deadline |-> 0, proceedAt |-> 0]

(***************************************************************************)
(* SeatLockRepo (Redis).                                                   *)
(***************************************************************************)
\* First pass of LockSeats: some requested seat is locked by another order.
LockedByOther(lk, seatIDs, orderID) ==
    \E s \in seatIDs : lk[s] # NoOrder /\ lk[s] # orderID

\* Second pass of LockSeats: SET every key to the order id.
SetLocks(lk, seatIDs, orderID) ==
    [s \in Seats |-> IF s \in seatIDs THEN orderID ELSE lk[s]]

\* A faulty compare-and-delete script that never deletes the entry.
ReleaseLockKeepsEntry(lk, seatID, orderID) == lk

\* One iteration of ReleaseLocks: the compare-and-delete Lua script.
ReleaseLock(lk, seatID, orderID) ==
    IF lk[seatID] = orderID THEN [lk EXCEPT ![seatID] = NoOrder] ELSE lk

\* The seat a loop over the list visits next.
NextSeat(S) == CHOOSE s \in S : \A t \in S : s <= t

(***************************************************************************)
(* FlightRepo (seats and flights tables).                                  *)
(***************************************************************************)
\* UPDATE seats SET status='reserved', order_id=$1 WHERE id = ANY($2) AND status='available'
MarkSeatsReserved(rows, seatIDs, orderID) ==
    [s \in Seats |->
        IF s \in seatIDs /\ rows[s].status = SeatStatusAvailable
        THEN [status |-> SeatStatusReserved, order_id |-> orderID]
        ELSE rows[s]]

\* MarkSeatsReserved returns nil: every requested row was updated.
MarkSeatsReservedOK(rows, seatIDs) ==
    \A s \in seatIDs : rows[s].status = SeatStatusAvailable

\* UPDATE seats SET status='available', order_id=NULL WHERE id = ANY($1)
MarkSeatsAvailable(rows, seatIDs) ==
    [s \in Seats |->
        IF s \in seatIDs
        THEN [status |-> SeatStatusAvailable, order_id |-> NoOrder]
        ELSE rows[s]]

\* UPDATE seats SET status='booked', order_id=$1 WHERE id = ANY($3)
BookSeats(rows, seatIDs, orderID) ==
    [s \in Seats |->
        IF s \in seatIDs
        THEN [status |-> SeatStatusBooked, order_id |-> orderID]
        ELSE rows[s]]

\* UpdateAvailableSeats succeeds: available_seats + delta >= 0
UpdateAvailableSeatsOK(n, delta) == n + delta >= 0

(***************************************************************************)
(* Initial state: the seeded flight, no orders, no locks.                  *)
(***************************************************************************)
Init ==
    /\ pc = [o \in Orders |-> "idle"]
    /\ state = [o \in Orders |-> NoState]
    /\ err = [o \in Orders |-> NoError]
    /\ local = [o \in Orders |-> NoLocals]
    /\ locks = [s \in Seats |-> NoOrder]
    /\ seats = [s \in Seats |-> [status |-> SeatStatusAvailable, order_id |-> NoOrder]]
    /\ availableSeats = NumSeats
    /\ orders = [o \in Orders |-> NoOrderRow]
    /\ updates = 0
    /\ released = [o \in Orders |-> <<>>]
    /\ decremented = [o \in Orders |-> 0]
    /\ lockErr = [o \in Orders |-> FALSE]
    /\ releaseErr = [o \in Orders |-> FALSE]
    /\ now = 0
    /\ response = NoResponse
    /\ hist = [o \in Orders |-> NoHist]
    /\ lockExpiry = [s \in Seats |-> 0]
    /\ cfg = HoldDuration
    /\ call = NoCall
    /\ signals = [o \in Orders |-> {}]

(***************************************************************************)
(* Workflow control.                                                       *)
(***************************************************************************)
\* What has been observed of workflow o once it moves to position p in state
\* st: its first deadline when it starts, and the instant of proceed-to-payment.
Observed(o, p, st) ==
    [deadline |-> IF pc[o] = "started" THEN st.expiresAt ELSE hist[o].deadline,
     proceedAt |-> IF pc[o] = "hold" /\ p \in {"payment_status", "panic"}
                   THEN now ELSE hist[o].proceedAt]

\* drainSignals: ReceiveAsync on every channel until it is empty.
drainSignals(channels) == {}

\* Moves workflow o to position p with the given workflow-local values; a
\* workflow that returns CONFIRMED drains its signal channels first.  A
\* step of a workflow takes no time, and the reply of the API operation that
\* returned before it has been delivered.
Goto(o, p, st, e, loc, rel) ==
    /\ pc' = [pc EXCEPT ![o] = p]
    /\ state' = [state EXCEPT ![o] = st]
    /\ err' = [err EXCEPT ![o] = e]
    /\ local' = [local EXCEPT ![o] = loc]
    /\ released' = [released EXCEPT ![o] = rel]
    /\ hist' = [hist EXCEPT ![o] = Observed(o, p, st)]
    /\ response' = NoResponse
    /\ signals' = [signals EXCEPT ![o] =
                       IF p = "done" /\ st.status = OrderStatusConfirmed
                       THEN drainSignals(@) ELSE @]
    /\ UNCHANGED << now, lockExpiry, cfg, call >>

\* Workflow o moves to position p within the running activity.
Step(o, p) == Goto(o, p, state[o], err[o], local[o], released[o])

\* Workflow o moves to position p where a ReleaseLocks loop over S starts
\* or continues.
Loop(o, p, S) ==
    Goto(o, p, state[o], err[o], [local[o] EXCEPT !.todo = S], released[o])

\* The engine schedules the next attempt of the running activity, which
\* starts at position p with a ReleaseLocks loop over S (if any).
Retry(o, p, S) ==
    Goto(o, p, state[o], err[o],
         [local[o] EXCEPT !.attempt = @ + 1, !.todo = S], released[o])

\* The running activity has ended and the workflow continues at p in state st.
Continue(o, p, st) ==
    Goto(o, p, st, err[o], [local[o] EXCEPT !.attempt = 1, !.todo = {}], released[o])

\* A faulty condition that compensates on expiry only.
NeedsCompensationOnExpiryOnly(st, e) == st.status = OrderStatusExpired

\* Condition of the deferred compensation block.
NeedsCompensation(st, e) ==
    e # NoError \/ st.status = OrderStatusExpired \/ st.status = OrderStatusFailed

\* BookingWorkflow returns with state st and error e: the deferred block runs
\* and, when compensation is needed, invokes ReleaseSeats on st.seats.
Return(o, st, e) ==
    IF NeedsCompensation(st, e)
    THEN Goto(o, IF st.seats = {} THEN "release_rows" ELSE "release_locks",
              st, e, [NoLocals EXCEPT !.todo = st.seats], <<st.seats>>)
    ELSE Goto(o, "done", st, e, NoLocals, released[o])

\* A faulty loop head that never takes the already-expired branch.
EnterHoldWithoutCheck(o, st) ==
    Goto(o, "hold", st, err[o], [NoLocals EXCEPT !.timer = st.expiresAt], released[o])

\* The top of the hold loop, reached in state st: the hold has already
\* expired, or a timer is created for the rest of it and the selector waits.
EnterHold(o, st) ==
    IF st.expiresAt - now <= 0
    THEN Goto(o, "expire_order",
              [st EXCEPT !.status = OrderStatusExpired, !.lastError = ErrReservationExpired],
              err[o], NoLocals, released[o])
    ELSE Goto(o, "hold", st, err[o], [NoLocals EXCEPT !.timer = st.expiresAt],
              released[o])

\* One iteration of the ReleaseLocks loop of workflow o, and the seats left
\* to visit afterwards.
ReleaseNextLock(o) == ReleaseLock(locks, NextSeat(local[o].todo), o)
RestOfTodo(o) == local[o].todo \ {NextSeat(local[o].todo)}

(***************************************************************************)
(* Phase 1: CreateOrder, then ReserveSeats.                                *)
(***************************************************************************)
\* What an API operation on order o replies.
Reply(op, o, code, status, S, timerRemaining, paymentAttempts, lastError) ==
    [op |-> op, order |-> o, code |-> code, status |-> status, seats |-> S,
     timerRemaining |-> timerRemaining, paymentAttempts |-> paymentAttempts,
     lastError |-> lastError]

\* POST /api/orders with seats S: the handler rejects an empty selection;
\* otherwise BookingService.CreateOrder starts the workflow with input S and
\* replies at once.
Handlers_CreateOrder(o, S) ==
    /\ pc[o] = "idle"
    /\ IF S = {}
       THEN /\ response' = Reply("create", o, 400, "INVALID_SEATS", S, 0, 0, NoLastError)
            /\ UNCHANGED << pc, state >>
       ELSE /\ response' = Reply("create", o, 201, OrderStatusSeatsReserved, S, 0, 0,
                                 NoLastError)
            /\ pc' = [pc EXCEPT ![o] = "started"]
            /\ state' = [state EXCEPT ![o] = [NoState EXCEPT !.seats = S]]
    /\ UNCHANGED << err, local, released, locks, seats, availableSeats, orders, updates,
                    decremented, lockErr, releaseErr, now, hist, lockExpiry, cfg, call,
                    signals >>

\* The workflow computes its deadline and CreateOrder inserts the row.
CreateOrder(o) ==
    LET expiresAt == now + HoldDuration IN
    /\ pc[o] = "started"
    /\ orders' = [orders EXCEPT ![o] =
                      [status |-> OrderStatusSeatsReserved, seats |-> state[o].seats,
                       expires_at |-> expiresAt, failure_reason |-> NoLastError]]
    /\ Continue(o, "reserve_check",
                [state[o] EXCEPT !.expiresAt = expiresAt,
                                 !.status = OrderStatusSeatsReserved])
    /\ UNCHANGED << locks, seats, availableSeats, updates, decremented, lockErr, releaseErr >>

\* CreateOrder fails on every attempt (flight lookup or insert error).
CreateOrderFails(o) ==
    /\ pc[o] = "started"
    /\ Return(o, [state[o] EXCEPT !.expiresAt = now + HoldDuration,
                                  !.lastError = ErrActivity,
                                  !.status = OrderStatusFailed], ErrActivity)
    /\ UNCHANGED << locks, seats, availableSeats, orders, updates, decremented, lockErr, releaseErr >>

\* ReserveSeats returned an error: the engine retries it, or the workflow fails.
ReserveSeatsFailed(o) ==
    IF local[o].attempt < MaximumAttempts
    THEN Retry(o, "reserve_check", {})
    ELSE Return(o, [state[o] EXCEPT !.lastError = ErrActivity,
                                    !.status = OrderStatusFailed], ErrActivity)

\* ReserveSeats, LockSeats first pass: read the lock entries.
ReserveSeats_CheckLocks(o) ==
    /\ pc[o] = "reserve_check"
    /\ IF LockedByOther(locks, state[o].seats, o)
       THEN ReserveSeatsFailed(o)
       ELSE Step(o, "reserve_lock")
    /\ UNCHANGED << locks, seats, availableSeats, orders, updates, decremented, lockErr, releaseErr >>

\* ReserveSeats, LockSeats second pass: write the lock entries.
ReserveSeats_SetLocks(o) ==
    /\ pc[o] = "reserve_lock"
    /\ locks' = SetLocks(locks, state[o].seats, o)
    /\ Step(o, "reserve_mark")
    /\ UNCHANGED << seats, availableSeats, orders, updates, decremented, lockErr, releaseErr >>

\* ReserveSeats, MarkSeatsReserved; on failure the locks are released next.
ReserveSeats_MarkReserved(o) ==
    /\ pc[o] = "reserve_mark"
    /\ seats' = MarkSeatsReserved(seats, state[o].seats, o)
    /\ IF MarkSeatsReservedOK(seats, state[o].seats)
       THEN EnterHold(o, state[o])
       ELSE Loop(o, "reserve_unlock", state[o].seats)
    /\ UNCHANGED << locks, availableSeats, orders, updates, decremented, lockErr, releaseErr >>

\* ReserveSeats, compensating ReleaseLocks loop, then the error is returned.
ReserveSeats_ReleaseLocks(o) ==
    /\ pc[o] = "reserve_unlock"
    /\ locks' = ReleaseNextLock(o)
    /\ IF RestOfTodo(o) = {}
       THEN ReserveSeatsFailed(o)
       ELSE Loop(o, "reserve_unlock", RestOfTodo(o))
    /\ UNCHANGED << seats, availableSeats, orders, updates, decremented, lockErr, releaseErr >>

(***************************************************************************)
(* Compensation: ReleaseSeats on the disconnected context.                 *)
(***************************************************************************)
\* ReleaseSeats returned an error: the engine retries it, or the deferred
\* block logs releaseErr and the workflow completes.
ReleaseSeatsFailed(o) ==
    IF local[o].attempt < MaximumAttempts
    THEN /\ Retry(o, IF state[o].seats = {} THEN "release_rows" ELSE "release_locks",
                  state[o].seats)
         /\ UNCHANGED releaseErr
    ELSE /\ Goto(o, "done", state[o], err[o], NoLocals, released[o])
         /\ releaseErr' = [releaseErr EXCEPT ![o] = TRUE]

\* ReleaseSeats step 1: the ReleaseLocks loop.
ReleaseSeats_ReleaseLocks(o) ==
    /\ pc[o] = "release_locks"
    /\ locks' = ReleaseNextLock(o)
    /\ Loop(o, IF RestOfTodo(o) = {} THEN "release_rows" ELSE "release_locks",
            RestOfTodo(o))
    /\ UNCHANGED << seats, availableSeats, orders, updates, decremented, lockErr, releaseErr >>

\* ReleaseSeats step 1 fails: the script of the ReleaseLocks loop returns a
\* Redis error and step 2 is not reached.
ReleaseSeats_ReleaseLocksError(o) ==
    /\ pc[o] = "release_locks"
    /\ ReleaseSeatsFailed(o)
    /\ UNCHANGED << locks, seats, availableSeats, orders, updates, decremented, lockErr >>

\* ReleaseSeats step 2: MarkSeatsAvailable; the workflow then completes.
ReleaseSeats_MarkAvailable(o) ==
    /\ pc[o] = "release_rows"
    /\ seats' = MarkSeatsAvailable(seats, state[o].seats)
    /\ Goto(o, "done", state[o], err[o], NoLocals, released[o])
    /\ UNCHANGED << locks, availableSeats, orders, updates, decremented, lockErr, releaseErr >>

\* ReleaseSeats step 2 fails: MarkSeatsAvailable returns a database error and
\* changes nothing.
ReleaseSeats_DatabaseError(o) ==
    /\ pc[o] = "release_rows"
    /\ ReleaseSeatsFailed(o)
    /\ UNCHANGED << locks, seats, availableSeats, orders, updates, decremented, lockErr >>

(***************************************************************************)
(* Phase 2: the hold loop (selector over the three signals and the timer). *)
(***************************************************************************)
\* The hold timer fires: the workflow becomes EXPIRED.
TimerFired(o) ==
    /\ pc[o] = "hold"
    /\ Continue(o, "expire_order",
                [state[o] EXCEPT !.status = OrderStatusExpired,
                                 !.lastError = ErrReservationExpired])
    /\ UNCHANGED << locks, seats, availableSeats, orders, updates, decremented, lockErr, releaseErr >>

\* ExpireOrder writes the row; the workflow returns ErrReservationExpired.
ExpireOrder(o) ==
    /\ pc[o] = "expire_order"
    /\ orders' = [orders EXCEPT ![o].status = OrderStatusExpired]
    /\ Return(o, state[o], ErrReservationExpired)
    /\ UNCHANGED << locks, seats, availableSeats, updates, decremented, lockErr, releaseErr >>

\* cancel-booking is received: the loop ends and the workflow becomes FAILED.
CancelBooking(o) ==
    /\ pc[o] = "hold"
    /\ Goto(o, "fail_order",
            [state[o] EXCEPT !.status = OrderStatusFailed, !.lastError = CanceledByUser],
            err[o], [local[o] EXCEPT !.exitErr = ErrWorkflowCanceled], released[o])
    /\ UNCHANGED << locks, seats, availableSeats, orders, updates, decremented, lockErr, releaseErr >>

\* FailOrder writes the row with state.lastError as the reason; the workflow
\* returns the error of its exit (cancel, payment failure or confirmation
\* failure).
FailOrder(o) ==
    /\ pc[o] = "fail_order"
    /\ orders' = [orders EXCEPT ![o].status = OrderStatusFailed,
                                ![o].failure_reason = state[o].lastError]
    /\ Return(o, state[o], local[o].exitErr)
    /\ UNCHANGED << locks, seats, availableSeats, updates, decremented, lockErr, releaseErr >>

\* A faulty handler of proceed-to-payment that starts a fresh hold.
ProceedToPaymentExtendsHold(o, code) ==
    /\ pc[o] = "hold"
    /\ Goto(o, "payment_status",
            [state[o] EXCEPT !.status = OrderStatusPaymentProcessing,
                             !.expiresAt = now + HoldDuration],
            err[o], [local[o] EXCEPT !.paymentSignal = code], released[o])
    /\ UNCHANGED << locks, seats, availableSeats, orders, updates, decremented, lockErr,
                    releaseErr >>

\* proceed-to-payment is received with a payment code.  The handler logs
\* PaymentCode[:2], which panics on a code of fewer than two characters: the
\* workflow task fails, and fails again on every replay, so the workflow
\* makes no further step.  Otherwise the loop ends and the workflow enters
\* the payment phase.
ProceedToPayment(o, code) ==
    /\ pc[o] = "hold"
    /\ IF Len(code) < 2
       THEN Goto(o, "panic", state[o], err[o],
                 [local[o] EXCEPT !.paymentSignal = code], released[o])
       ELSE Goto(o, "payment_status",
                 [state[o] EXCEPT !.status = OrderStatusPaymentProcessing], err[o],
                 [local[o] EXCEPT !.paymentSignal = code], released[o])
    /\ UNCHANGED << locks, seats, availableSeats, orders, updates, decremented, lockErr, releaseErr >>

(***************************************************************************)
(* update-seats: UpdateSeatSelection, then UpdateOrderSeats.               *)
(***************************************************************************)
\* A faulty activity that has nothing to do when the new list is empty.
UpdateFirstCallSkipsEmptyList(old, new) ==
    IF new = {} THEN "update_order_seats"
    ELSE IF old # {} THEN "update_unlock_old"
    ELSE "update_check_new"

\* Where an attempt of UpdateSeatSelection(old, new) makes its first call.
UpdateFirstCall(old, new) ==
    IF old # {} THEN "update_unlock_old"
    ELSE IF new # {} THEN "update_check_new"
    ELSE "update_order_seats"

\* A faulty handler that takes the new seats and keeps the deadline.
UpdateSucceededKeepsDeadline(o) ==
    Continue(o, "update_order_seats", [state[o] EXCEPT !.seats = local[o].newSeats])

\* UpdateSeatSelection returned nil: the handler takes the new seats, moves
\* the deadline and calls UpdateOrderSeats.
UpdateSucceeded(o) ==
    Continue(o, "update_order_seats",
             [state[o] EXCEPT !.seats = local[o].newSeats,
                              !.expiresAt = now + HoldDuration])

\* A faulty handler that moves the deadline although the change failed.
UpdateFailedMovesDeadline(o) ==
    IF local[o].attempt < MaximumAttempts
    THEN Retry(o, UpdateFirstCall(state[o].seats, local[o].newSeats), state[o].seats)
    ELSE EnterHold(o, [state[o] EXCEPT !.lastError = ErrActivity,
                                       !.expiresAt = now + HoldDuration])

\* UpdateSeatSelection returned an error: the engine retries it, or the
\* handler records the error and the workflow keeps its seats.
UpdateFailed(o) ==
    IF local[o].attempt < MaximumAttempts
    THEN Retry(o, UpdateFirstCall(state[o].seats, local[o].newSeats), state[o].seats)
    ELSE EnterHold(o, [state[o] EXCEPT !.lastError = ErrActivity])

\* update-seats is received with payload N and UpdateSeatSelection starts;
\* with nothing to release or acquire it returns nil at once.
UpdateSeatsSignal(o, N) ==
    /\ pc[o] = "hold"
    /\ updates < MaxUpdates
    /\ updates' = updates + 1
    /\ Goto(o, UpdateFirstCall(state[o].seats, N),
            IF UpdateFirstCall(state[o].seats, N) = "update_order_seats"
            THEN [state[o] EXCEPT !.seats = N, !.expiresAt = now + HoldDuration]
            ELSE state[o],
            err[o],
            [local[o] EXCEPT !.newSeats = N, !.todo = state[o].seats], released[o])
    /\ UNCHANGED << locks, seats, availableSeats, orders, decremented, lockErr, releaseErr >>

\* ReleaseLocks loop over the old seats.
UpdateSeatSelection_ReleaseOldLocks(o) ==
    /\ pc[o] = "update_unlock_old"
    /\ locks' = ReleaseNextLock(o)
    /\ Loop(o, IF RestOfTodo(o) = {} THEN "update_free_old" ELSE "update_unlock_old",
            RestOfTodo(o))
    /\ UNCHANGED << seats, availableSeats, orders, updates, decremented, lockErr, releaseErr >>

\* MarkSeatsAvailable on the old seats.
UpdateSeatSelection_MarkOldAvailable(o) ==
    /\ pc[o] = "update_free_old"
    /\ seats' = MarkSeatsAvailable(seats, state[o].seats)
    /\ IF local[o].newSeats = {}
       THEN UpdateSucceeded(o)
       ELSE Step(o, "update_check_new")
    /\ UNCHANGED << locks, availableSeats, orders, updates, decremented, lockErr, releaseErr >>

\* LockSeats on the new seats, first pass.
UpdateSeatSelection_CheckNewLocks(o) ==
    /\ pc[o] = "update_check_new"
    /\ Step(o, IF LockedByOther(locks, local[o].newSeats, o)
               THEN "update_check_old" ELSE "update_lock_new")
    /\ UNCHANGED << locks, seats, availableSeats, orders, updates, decremented, lockErr, releaseErr >>

\* LockSeats on the new seats, second pass.
UpdateSeatSelection_SetNewLocks(o) ==
    /\ pc[o] = "update_lock_new"
    /\ locks' = SetLocks(locks, local[o].newSeats, o)
    /\ Step(o, "update_mark_new")
    /\ UNCHANGED << seats, availableSeats, orders, updates, decremented, lockErr, releaseErr >>

\* MarkSeatsReserved on the new seats.
UpdateSeatSelection_MarkNewReserved(o) ==
    /\ pc[o] = "update_mark_new"
    /\ seats' = MarkSeatsReserved(seats, local[o].newSeats, o)
    /\ IF MarkSeatsReservedOK(seats, local[o].newSeats)
       THEN UpdateSucceeded(o)
       ELSE Loop(o, "update_unlock_new", local[o].newSeats)
    /\ UNCHANGED << locks, availableSeats, orders, updates, decremented, lockErr, releaseErr >>

\* Compensation: ReleaseLocks loop over the new seats.
UpdateSeatSelection_ReleaseNewLocks(o) ==
    /\ pc[o] = "update_unlock_new"
    /\ locks' = ReleaseNextLock(o)
    /\ Loop(o, IF RestOfTodo(o) = {} THEN "update_check_old" ELSE "update_unlock_new",
            RestOfTodo(o))
    /\ UNCHANGED << seats, availableSeats, orders, updates, decremented, lockErr, releaseErr >>

\* The script of the ReleaseLocks loop over the new seats fails with a Redis
\* error, which UpdateSeatSelection drops.
UpdateSeatSelection_ReleaseNewLocksError(o) ==
    /\ pc[o] = "update_unlock_new"
    /\ lockErr' = [lockErr EXCEPT ![o] = TRUE]
    /\ Loop(o, "update_check_old", {})
    /\ UNCHANGED << locks, seats, availableSeats, orders, updates, decremented, releaseErr >>

\* Best-effort LockSeats on the old seats, first pass (its error is dropped).
UpdateSeatSelection_CheckOldLocks(o) ==
    /\ pc[o] = "update_check_old"
    /\ Step(o, IF LockedByOther(locks, state[o].seats, o)
               THEN "update_mark_old" ELSE "update_lock_old")
    /\ UNCHANGED << locks, seats, availableSeats, orders, updates, decremented, lockErr, releaseErr >>

\* Best-effort LockSeats on the old seats, second pass.
UpdateSeatSelection_SetOldLocks(o) ==
    /\ pc[o] = "update_lock_old"
    /\ locks' = SetLocks(locks, state[o].seats, o)
    /\ Step(o, "update_mark_old")
    /\ UNCHANGED << seats, availableSeats, orders, updates, decremented, lockErr, releaseErr >>

\* Best-effort MarkSeatsReserved on the old seats (its error is dropped); the
\* activity then returns the error of the failed acquisition.
UpdateSeatSelection_MarkOldReserved(o) ==
    /\ pc[o] = "update_mark_old"
    /\ seats' = MarkSeatsReserved(seats, state[o].seats, o)
    /\ UpdateFailed(o)
    /\ UNCHANGED << locks, availableSeats, orders, updates, decremented, lockErr, releaseErr >>

\* UpdateOrderSeats writes the seats and the deadline to the order row; the
\* hold loop continues.
UpdateOrderSeats(o) ==
    /\ pc[o] = "update_order_seats"
    /\ orders' = [orders EXCEPT ![o].seats = state[o].seats,
                                ![o].expires_at = state[o].expiresAt]
    /\ EnterHold(o, state[o])
    /\ UNCHANGED << locks, seats, availableSeats, updates, decremented, lockErr, releaseErr >>

(***************************************************************************)
(* Phase 3: payment, with the manual retry loop.                           *)
(***************************************************************************)
\* paymentCodePattern: exactly five decimal digits.
paymentCodePattern(code) ==
    Len(code) = 5 /\ \A i \in 1..Len(code) : code[i] \in 0..9

\* Results one execution of ValidatePayment can have for a payment code.
ValidatePayment(code) ==
    IF ~paymentCodePattern(code) THEN {"INVALID_PAYMENT_CODE"}
    ELSE IF code = <<0, 0, 0, 0, 0>> THEN {"PAYMENT_DECLINED"}
    ELSE IF code = <<9, 9, 9, 9, 9>> THEN {"success"}
    ELSE {"success", "gateway_error"}

\* The error types on which the retry loop breaks.
NonRetryable(result) ==
    result \in {"INVALID_PAYMENT_CODE", "PAYMENT_DECLINED"}

\* UpdateOrderStatus writes PAYMENT_PROCESSING to the row.
UpdateOrderStatus(o) ==
    /\ pc[o] = "payment_status"
    /\ orders' = [orders EXCEPT ![o].status = OrderStatusPaymentProcessing]
    /\ Step(o, "payment_attempt")
    /\ UNCHANGED << locks, seats, availableSeats, updates, decremented, lockErr, releaseErr >>

\* state.lastError after a failed attempt: of a non-retryable failure, of
\* the last attempt, or of an attempt that is followed by another one.
PaymentFailure(result, attempt) ==
    CASE result = "INVALID_PAYMENT_CODE" -> "payment failed: payment code must be 5 digits"
      [] result = "PAYMENT_DECLINED" -> "payment failed: payment declined: insufficient funds"
      [] OTHER -> IF attempt >= maxPaymentAttempts THEN "payment failed after 3 attempts"
                  ELSE IF attempt = 1 THEN "payment failed (attempt 1 of 3)"
                  ELSE "payment failed (attempt 2 of 3)"

\* A faulty backoff that always waits one second.
BackoffOneSecond(attempt) == TicksPerSecond

\* backoffDuration := time.Second * time.Duration(attempt), in ticks.
BackoffDuration(attempt) == TicksPerSecond * attempt

\* A faulty check that fails the order whatever the loop's result was.
AfterPaymentLoopAlwaysFails(o, st, lastErr) ==
    Goto(o, "fail_order", [st EXCEPT !.status = OrderStatusFailed], err[o],
         [local[o] EXCEPT !.lastPaymentErr = lastErr, !.exitErr = lastErr], released[o])

\* The code after the retry loop ("Check final result"), reached in state st
\* with lastErr as the value of lastPaymentErr.
AfterPaymentLoop(o, st, lastErr) ==
    IF lastErr # NoError
    THEN Goto(o, "fail_order",
              [st EXCEPT !.status = OrderStatusFailed,
                         !.lastError = IF @ = NoLastError
                                       THEN "payment failed after 3 attempts" ELSE @],
              err[o],
              [local[o] EXCEPT !.lastPaymentErr = lastErr, !.exitErr = lastErr],
              released[o])
    ELSE Goto(o, "confirm_order", [st EXCEPT !.status = OrderStatusConfirmed], err[o],
              [local[o] EXCEPT !.lastPaymentErr = lastErr], released[o])

\* One iteration of the retry loop: ValidatePayment returns result.
PaymentAttempt(o, result) ==
    LET n == state[o].paymentAttempts + 1
        st == [state[o] EXCEPT !.paymentAttempts = n]
        failed == [st EXCEPT !.lastError = PaymentFailure(result, n)]
    IN  /\ pc[o] = "payment_attempt"
        /\ result \in ValidatePayment(local[o].paymentSignal)
        /\ IF result = "success"
           THEN AfterPaymentLoop(o, st, local[o].lastPaymentErr)
           ELSE IF ~NonRetryable(result) /\ n < maxPaymentAttempts
           THEN Goto(o, "payment_sleep", failed, err[o],
                     [local[o] EXCEPT !.lastPaymentErr = result,
                                      !.timer = now + BackoffDuration(n)],
                     released[o])
           ELSE AfterPaymentLoop(o, failed, result)
        /\ UNCHANGED << locks, seats, availableSeats, orders, updates, decremented, lockErr, releaseErr >>

\* A faulty sleep that reads the cancel channel when it ends.
PaymentBackoffObservesCancel(o) ==
    /\ pc[o] = "payment_sleep"
    /\ IF "cancel-booking" \in signals[o]
       THEN Goto(o, "fail_order",
                 [state[o] EXCEPT !.status = OrderStatusFailed, !.lastError = CanceledByUser],
                 err[o], [local[o] EXCEPT !.exitErr = ErrWorkflowCanceled], released[o])
       ELSE Step(o, "payment_attempt")
    /\ UNCHANGED << locks, seats, availableSeats, orders, updates, decremented, lockErr, releaseErr >>

\* workflow.Sleep between two attempts ends.
PaymentBackoff(o) ==
    /\ pc[o] = "payment_sleep"
    /\ Step(o, "payment_attempt")
    /\ UNCHANGED << locks, seats, availableSeats, orders, updates, decremented, lockErr, releaseErr >>

(***************************************************************************)
(* Phase 4: ConfirmOrder.                                                  *)
(***************************************************************************)
\* ConfirmOrder returned an error: the engine retries it, or the workflow
\* becomes FAILED and calls FailOrder.
ConfirmOrderFailed(o) ==
    IF local[o].attempt < MaximumAttempts
    THEN Retry(o, "confirm_order", {})
    ELSE Goto(o, "fail_order",
              [state[o] EXCEPT !.status = OrderStatusFailed,
                               !.lastError = "confirmation failed"],
              err[o],
              [local[o] EXCEPT !.attempt = 1, !.todo = {}, !.exitErr = ErrActivity],
              released[o])

\* orderRepo.Confirm
ConfirmOrder_Confirm(o) ==
    /\ pc[o] = "confirm_order"
    /\ orders' = [orders EXCEPT ![o].status = OrderStatusConfirmed]
    /\ Step(o, "confirm_book")
    /\ UNCHANGED << locks, seats, availableSeats, updates, decremented, lockErr, releaseErr >>

\* flightRepo.BookSeats
ConfirmOrder_BookSeats(o) ==
    /\ pc[o] = "confirm_book"
    /\ seats' = BookSeats(seats, state[o].seats, o)
    /\ Step(o, "confirm_counter")
    /\ UNCHANGED << locks, availableSeats, orders, updates, decremented, lockErr, releaseErr >>

\* flightRepo.UpdateAvailableSeats(-len(seats)); on success the ReleaseLocks
\* loop follows, whose error is dropped.
ConfirmOrder_UpdateAvailableSeats(o) ==
    LET seatCount == Cardinality(state[o].seats) IN
    /\ pc[o] = "confirm_counter"
    /\ IF UpdateAvailableSeatsOK(availableSeats, -seatCount)
       THEN /\ availableSeats' = availableSeats - seatCount
            /\ decremented' = [decremented EXCEPT ![o] = @ + seatCount]
            /\ IF state[o].seats = {}
               THEN Return(o, state[o], NoError)
               ELSE Loop(o, "confirm_unlock", state[o].seats)
       ELSE /\ UNCHANGED << availableSeats, decremented >>
            /\ ConfirmOrderFailed(o)
    /\ UNCHANGED << locks, seats, orders, updates, lockErr, releaseErr >>

\* ReleaseLocks loop of ConfirmOrder; the workflow then returns CONFIRMED.
ConfirmOrder_ReleaseLocks(o) ==
    /\ pc[o] = "confirm_unlock"
    /\ locks' = ReleaseNextLock(o)
    /\ IF RestOfTodo(o) = {}
       THEN Return(o, state[o], NoError)
       ELSE Loop(o, "confirm_unlock", RestOfTodo(o))
    /\ UNCHANGED << seats, availableSeats, orders, updates, decremented, lockErr, releaseErr >>

\* The script of ConfirmOrder's ReleaseLocks loop fails with a Redis error,
\* which ConfirmOrder drops: the workflow returns CONFIRMED.
ConfirmOrder_ReleaseLocksError(o) ==
    /\ pc[o] = "confirm_unlock"
    /\ lockErr' = [lockErr EXCEPT ![o] = TRUE]
    /\ Return(o, state[o], NoError)
    /\ UNCHANGED << locks, seats, availableSeats, orders, updates, decremented, releaseErr >>

\* A statement of ConfirmOrder fails with a database error and changes nothing.
ConfirmOrder_DatabaseError(o) ==
    /\ pc[o] \in {"confirm_order", "confirm_book", "confirm_counter"}
    /\ ConfirmOrderFailed(o)
    /\ UNCHANGED << locks, seats, availableSeats, orders, updates, decremented, lockErr, releaseErr >>

(***************************************************************************)
(* The system: every workflow takes its steps in any interleaving.         *)
(***************************************************************************)
\* The steps of workflow o that are neither a signal nor the passing of time.
Steps(o) ==
    \/ CreateOrder(o)
    \/ CreateOrderFails(o)
    \/ ReserveSeats_CheckLocks(o)
    \/ ReserveSeats_SetLocks(o)
    \/ ReserveSeats_MarkReserved(o)
    \/ ReserveSeats_ReleaseLocks(o)
    \/ ExpireOrder(o)
    \/ FailOrder(o)
    \/ UpdateSeatSelection_ReleaseOldLocks(o)
    \/ UpdateSeatSelection_MarkOldAvailable(o)
    \/ UpdateSeatSelection_CheckNewLocks(o)
    \/ UpdateSeatSelection_SetNewLocks(o)
    \/ UpdateSeatSelection_MarkNewReserved(o)
    \/ UpdateSeatSelection_ReleaseNewLocks(o)
    \/ UpdateSeatSelection_ReleaseNewLocksError(o)
    \/ UpdateSeatSelection_CheckOldLocks(o)
    \/ UpdateSeatSelection_SetOldLocks(o)
    \/ UpdateSeatSelection_MarkOldReserved(o)
    \/ UpdateOrderSeats(o)
    \/ UpdateOrderStatus(o)
    \/ \E result \in {"success", "gateway_error", "INVALID_PAYMENT_CODE",
                      "PAYMENT_DECLINED"} : PaymentAttempt(o, result)
    \/ ConfirmOrder_Confirm(o)
    \/ ConfirmOrder_BookSeats(o)
    \/ ConfirmOrder_UpdateAvailableSeats(o)
    \/ ConfirmOrder_ReleaseLocks(o)
    \/ ConfirmOrder_ReleaseLocksError(o)
    \/ ConfirmOrder_DatabaseError(o)
    \/ ReleaseSeats_ReleaseLocks(o)
    \/ ReleaseSeats_ReleaseLocksError(o)
    \/ ReleaseSeats_MarkAvailable(o)
    \/ ReleaseSeats_DatabaseError(o)

Customer == 1               \* the order that is followed

\* Workflow o and its customer, with durations abstracted away: a timer or a
\* Sleep may end at any moment. The update-seats signals of a run go to the
\* followed order.
Workflow(o) ==
    \/ \E S \in SUBSET Seats : Handlers_CreateOrder(o, S)
    \/ Steps(o)
    \/ TimerFired(o)
    \/ CancelBooking(o)
    \/ \E code \in PaymentCodes : ProceedToPayment(o, code)
    \/ \E N \in SUBSET Seats : o = Customer /\ UpdateSeatsSignal(o, N)
    \/ PaymentBackoff(o)

Next == \E o \in Orders : Workflow(o)

Spec == Init /\ [][Next]_vars

(***************************************************************************)
(* One workflow along the clock, with the API operations on its order.     *)
(***************************************************************************)
OtherOrder == NumOrders     \* an order placed earlier on the same flight
LastSeat == NumSeats        \* the seat the earlier order selected

\* Payment codes a proceed-to-payment signal may carry: well-formed ones and
\* codes of the wrong length, down to one character and to the empty code.
AllPaymentCodes ==
    PaymentCodes \cup { <<1, 2, 3>>, <<7>>, <<>> }

\* The earlier order is absent, is in its payment phase holding the last
\* seat, or has completed CONFIRMED owning it.
EarlierOrder ==
    \E other \in {"absent", "paying", "confirmed"} :
        LET mine == [seats |-> {LastSeat}, status |-> OrderStatusPaymentProcessing,
                     paymentAttempts |-> 0, expiresAt |-> HoldDuration,
                     lastError |-> NoLastError]
            row == [status |-> OrderStatusPaymentProcessing, seats |-> {LastSeat},
                    expires_at |-> HoldDuration, failure_reason |-> NoLastError]
        IN
        /\ pc = [o \in Orders |->
                    IF o # OtherOrder \/ o = Customer \/ other = "absent" THEN "idle"
                    ELSE IF other = "paying" THEN "payment_attempt" ELSE "done"]
        /\ state = [o \in Orders |->
                    IF pc[o] = "idle" THEN NoState
                    ELSE IF other = "paying" THEN mine
                    ELSE [mine EXCEPT !.status = OrderStatusConfirmed,
                                      !.paymentAttempts = 1]]
        /\ err = [o \in Orders |-> NoError]
        /\ local = [o \in Orders |->
                    IF pc[o] = "payment_attempt"
                    THEN [NoLocals EXCEPT !.paymentSignal = <<1, 2, 3, 4, 5>>]
                    ELSE NoLocals]
        /\ locks = [s \in Seats |->
                    IF s = LastSeat /\ pc[OtherOrder] = "payment_attempt"
                    THEN OtherOrder ELSE NoOrder]
        /\ seats = [s \in Seats |->
                    IF s # LastSeat \/ pc[OtherOrder] = "idle"
                    THEN [status |-> SeatStatusAvailable, order_id |-> NoOrder]
                    ELSE IF other = "paying"
                    THEN [status |-> SeatStatusReserved, order_id |-> OtherOrder]
                    ELSE [status |-> SeatStatusBooked, order_id |-> OtherOrder]]
        /\ availableSeats = IF pc[OtherOrder] = "done" THEN NumSeats - 1 ELSE NumSeats
        /\ orders = [o \in Orders |->
                    IF pc[o] = "idle" THEN NoOrderRow
                    ELSE IF other = "paying" THEN row
                    ELSE [row EXCEPT !.status = OrderStatusConfirmed]]
        /\ updates = 0
        /\ released = [o \in Orders |-> <<>>]
        /\ decremented = [o \in Orders |-> IF pc[o] = "done" THEN 1 ELSE 0]
        /\ lockErr = [o \in Orders |-> FALSE]
        /\ releaseErr = [o \in Orders |-> FALSE]
        /\ now = 0
        /\ response = NoResponse
        /\ hist = [o \in Orders |->
                    IF pc[o] = "idle" THEN NoHist
                    ELSE [deadline |-> HoldDuration, proceedAt |-> 0]]
        /\ call = NoCall
        /\ signals = [o \in Orders |-> {}]

\* The clock starts at 0; the configured timeout is the default.
TimedInit ==
    /\ EarlierOrder
    /\ lockExpiry = [s \in Seats |-> 0]
    /\ cfg = HoldDuration

\* The clock advances by one tick.
Tick ==
    /\ now < MaxTime
    /\ now' = now + 1
    /\ response' = NoResponse
    /\ UNCHANGED << pc, state, err, local, locks, seats, availableSeats, orders, updates,
                    released, decremented, lockErr, releaseErr, hist, lockExpiry, cfg, call,
                    signals >>

\* The selector of the hold loop prefers what became ready first: the timer
\* once its instant has come, a signal before that.
HoldTimerFires(o) == now >= local[o].timer /\ TimerFired(o)
CancelSignal(o) == now < local[o].timer /\ CancelBooking(o)
PaymentSignal(o, code) == now < local[o].timer /\ ProceedToPayment(o, code)
SeatUpdateSignal(o, N) == now < local[o].timer /\ UpdateSeatsSignal(o, N)

\* workflow.Sleep ends once its duration has passed.
SleepEnds(o) == now >= local[o].timer /\ PaymentBackoff(o)

\* A faulty conversion that rounds the remaining time up to whole seconds.
SecondsRoundedUp(ticks) == (ticks + TicksPerSecond - 1) \div TicksPerSecond

\* int(remaining.Seconds()): the whole seconds in a duration of ticks.
Seconds(ticks) == ticks \div TicksPerSecond

\* timerRemaining of a deadline at instant t; the zero time is no deadline.
TimerRemaining(expiresAt, t) ==
    IF expiresAt # 0 /\ expiresAt - t > 0 THEN Seconds(expiresAt - t) ELSE 0

\* bookingState.toStatusResponse: the reply of the booking-status query.
toStatusResponse(o, st, t) ==
    Reply("status", o, 200, st.status, st.seats, TimerRemaining(st.expiresAt, t),
          st.paymentAttempts, st.lastError)

\* bookingState.toResult: the result the workflow returns.
toResult(o, st) ==
    [orderID |-> o, status |-> st.status, seats |-> st.seats, error |-> st.lastError]

\* The booking-status query of workflow o fails: always when the workflow was
\* never started, never while it runs, and possibly once it is closed or
\* blocked.
QueryFails(o, fails) ==
    IF pc[o] = "idle" THEN fails
    ELSE IF pc[o] \in {"done", "panic"} THEN fails \in BOOLEAN
    ELSE ~fails

\* The reply built from a successful booking-status query.
StatusFromWorkflow(o) ==
    response' = toStatusResponse(o, state[o], now)

\* The reply built from the order row when the query failed.
StatusFromStore(o) ==
    response' =
        IF orders[o].status = NoRow
        THEN Reply("status", o, 404, "ORDER_NOT_FOUND", {}, 0, 0, NoLastError)
        ELSE Reply("status", o, 200, orders[o].status, orders[o].seats,
                   TimerRemaining(orders[o].expires_at, now), 0,
                   orders[o].failure_reason)

\* GET /api/orders/{id}: BookingService.GetOrderStatus queries the workflow
\* and, when the query fails, reads the order row.
GetOrderStatus(o) ==
    /\ \E fails \in BOOLEAN :
          /\ QueryFails(o, fails)
          /\ IF fails THEN StatusFromStore(o) ELSE StatusFromWorkflow(o)
    /\ UNCHANGED << pc, state, err, local, locks, seats, availableSeats, orders, updates,
                    released, decremented, lockErr, releaseErr, now, hist, lockExpiry, cfg,
                    call, signals >>

TimedNext ==
    \/ \E S \in SUBSET Seats : Handlers_CreateOrder(Customer, S)
    \/ Steps(Customer)
    \/ HoldTimerFires(Customer)
    \/ CancelSignal(Customer)
    \/ \E code \in AllPaymentCodes : PaymentSignal(Customer, code)
    \/ \E N \in SUBSET Seats : SeatUpdateSignal(Customer, N)
    \/ SleepEnds(Customer)
    \/ GetOrderStatus(Customer)
    \/ Tick

TimedSpec == TimedInit /\ [][TimedNext]_vars

\* The engine keeps scheduling the workflow's tasks and activities, and the
\* clock keeps running.
LiveSpec == TimedSpec /\ WF_vars(Steps(Customer)) /\ WF_vars(Tick)

(***************************************************************************)
(* Vocabulary of the properties.                                           *)
(***************************************************************************)
Terminal == {OrderStatusConfirmed, OrderStatusFailed, OrderStatusExpired}

\* The workflow of o has completed (its deferred block included).
Completed(o) == pc[o] = "done"

\* The workflow of o completes in this step.
Completes(o) == pc[o] # "done" /\ pc'[o] = "done"

\* The workflow of o is in the hold or payment phase and no seat change is
\* in progress: its reservation succeeded and it has not reached the
\* confirm phase or an exit.
HoldOrPayment(o) ==
    pc[o] \in {"hold", "payment_status", "payment_attempt", "payment_sleep"}

\* Order o holds its current selection: reserved, not terminated, no seat
\* change in progress.
Holding(o) ==
    pc[o] \in {"hold", "payment_status", "payment_attempt", "payment_sleep",
               "confirm_order", "confirm_book", "confirm_counter", "confirm_unlock"}

\* Positions of a workflow whose update-seats handler is running.
SeatChange ==
    {"update_unlock_old", "update_free_old", "update_check_new", "update_lock_new",
     "update_mark_new", "update_unlock_new", "update_check_old", "update_lock_old",
     "update_mark_old", "update_order_seats"}

\* Positions of the hold phase: the selector waits or a seat change runs.
HoldPhase == {"hold"} \cup SeatChange

ReservedFor(s, o) == seats[s] = [status |-> SeatStatusReserved, order_id |-> o]
BookedFor(s, o) == seats[s] = [status |-> SeatStatusBooked, order_id |-> o]
IsAvailable(s) == seats[s] = [status |-> SeatStatusAvailable, order_id |-> NoOrder]

(***************************************************************************)
(* C1: no seat is in the final seat set of two distinct orders that both   *)
(* completed with status CONFIRMED.                                        *)
(***************************************************************************)
C1_AtMostOneConfirmedPerSeat ==
    \A o1, o2 \in Orders :
        ( /\ o1 # o2
          /\ Completed(o1) /\ state[o1].status = OrderStatusConfirmed
          /\ Completed(o2) /\ state[o2].status = OrderStatusConfirmed )
        => state[o1].seats \cap state[o2].seats = {}

(***************************************************************************)
(* C2: at any instant at most one order holds a given seat: two distinct   *)
(* orders that both hold their selection never have a seat in common.      *)
(***************************************************************************)
C2_SeatHeldByAtMostOneOrder ==
    \A o1, o2 \in Orders :
        (o1 # o2 /\ Holding(o1) /\ Holding(o2))
        => state[o1].seats \cap state[o2].seats = {}

(***************************************************************************)
(* C3: a workflow that completes with a final status other than CONFIRMED  *)
(* has invoked ReleaseSeats on its final seat set before completing; a     *)
(* workflow that completes CONFIRMED has not invoked it.                   *)
(***************************************************************************)
C3_CompensationOnEveryNonConfirmedExit ==
    \A o \in Orders :
        /\ Completed(o) =>
              IF state[o].status = OrderStatusConfirmed
              THEN released[o] = <<>>
              ELSE released[o] = <<state[o].seats>>
        /\ released[o] # <<>> => pc[o] \in {"release_locks", "release_rows", "done"}

\* An order has completed EXPIRED after ReleaseSeats was invoked on its seats,
\* and the other order has completed CONFIRMED.
C3_Witness ==
    \E o1, o2 \in Orders :
        /\ Completed(o1) /\ state[o1].status = OrderStatusExpired
        /\ state[o1].seats # {} /\ released[o1] = <<state[o1].seats>>
        /\ Completed(o2) /\ state[o2].status = OrderStatusConfirmed
        /\ released[o2] = <<>>

(***************************************************************************)
(* C4: a successful ValidatePayment on any of the up-to-three attempts     *)
(* (in particular on the third, after two retryable failures) takes the    *)
(* workflow to the confirm phase, not to FAILED.                           *)
(***************************************************************************)
C4_PaymentSuccessLeadsToConfirm ==
    [][\A o \in Orders :
          PaymentAttempt(o, "success") =>
              /\ pc'[o] = "confirm_order"
              /\ state'[o].status = OrderStatusConfirmed]_vars

(***************************************************************************)
(* C5: once an order's status, in workflow memory or in the order row, is  *)
(* CONFIRMED, FAILED or EXPIRED, it never changes again.                   *)
(***************************************************************************)
C5_TerminalStatusIsFinal ==
    [][\A o \in Orders :
          /\ state[o].status \in Terminal => state'[o].status = state[o].status
          /\ orders[o].status \in Terminal => orders'[o].status = orders[o].status]_vars

(***************************************************************************)
(* C6: every seat row with status booked references an order whose         *)
(* persisted status is CONFIRMED.                                          *)
(***************************************************************************)
C6_BookedSeatsBelongToConfirmedOrders ==
    \A s \in Seats :
        seats[s].status = SeatStatusBooked =>
            /\ seats[s].order_id \in Orders
            /\ orders[seats[s].order_id].status = OrderStatusConfirmed

(***************************************************************************)
(* C7: for every order in the hold or payment phase, every seat of its     *)
(* current selection has a seat row reserved for that order.               *)
(***************************************************************************)
C7_RunningOrderSeatsAreReserved ==
    \A o \in Orders :
        HoldOrPayment(o) => \A s \in state[o].seats : ReservedFor(s, o)

(***************************************************************************)
(* C8: when a workflow completes with CONFIRMED, every seat of its final   *)
(* seat set has a seat row booked for that order, and the available-seat   *)
(* counter has been decremented for that order by exactly the number of    *)
(* those seats.                                                            *)
(***************************************************************************)
C8_ConfirmedSeatsBookedAndCounted ==
    [][\A o \in Orders :
          (Completes(o) /\ state'[o].status = OrderStatusConfirmed) =>
              /\ \A s \in state'[o].seats :
                    seats'[s] = [status |-> SeatStatusBooked, order_id |-> o]
              /\ decremented'[o] = Cardinality(state'[o].seats)]_vars

C10_ExpiredSeatsAvailable ==
    [][\A o \in Orders :
          (Completes(o) /\ state'[o].status = OrderStatusExpired) =>
              \A s \in state'[o].seats :
                  seats'[s] = [status |-> SeatStatusAvailable, order_id |-> NoOrder]]_vars

(***************************************************************************)
(* C10, amended: when a workflow completes with EXPIRED and its            *)
(* compensation returned no error, every seat of its final seat set has,   *)
(* at that moment, a seat row that is available with no owning order.      *)
(***************************************************************************)
C10_ExpiredSeatsAvailableAfterRelease ==
    [][\A o \in Orders :
          (Completes(o) /\ state'[o].status = OrderStatusExpired /\ ~releaseErr'[o]) =>
              \A s \in state'[o].seats :
                  seats'[s] = [status |-> SeatStatusAvailable, order_id |-> NoOrder]]_vars

RejectedCode(code) == ~paymentCodePattern(code) \/ code = <<0, 0, 0, 0, 0>>

C12_RejectedCodeFailsAfterOneAttempt ==
    \A o \in Orders :
        /\ ( /\ pc[o] \in {"panic", "payment_status", "payment_attempt", "payment_sleep"}
             /\ RejectedCode(local[o].paymentSignal) ) =>
                /\ pc[o] \in {"payment_status", "payment_attempt"}
                /\ state[o].paymentAttempts = 0
        /\ ( /\ pc[o] = "fail_order"
             /\ local[o].lastPaymentErr # NoError
             /\ RejectedCode(local[o].paymentSignal) ) =>
                /\ state[o].paymentAttempts = 1
                /\ state[o].status = OrderStatusFailed
                /\ NonRetryable(local[o].lastPaymentErr)
                /\ state[o].lastError = PaymentFailure(local[o].lastPaymentErr, 1)
        /\ ( /\ pc[o] \in {"release_locks", "release_rows", "done"}
             /\ NonRetryable(err[o]) ) =>
                /\ state[o].paymentAttempts = 1
                /\ state[o].status = OrderStatusFailed
                /\ state[o].lastError = PaymentFailure(err[o], 1)
                /\ orders[o].status = OrderStatusFailed
                /\ orders[o].failure_reason = state[o].lastError

C14_SeatUpdateMovesDeadline ==
    [][\A o \in Orders :
          /\ (pc[o] \in SeatChange \ {"update_order_seats"}
                /\ pc'[o] = "update_order_seats") =>
                /\ state'[o].seats = local[o].newSeats
                /\ state'[o].expiresAt = now + HoldDuration
                /\ state'[o].status = OrderStatusSeatsReserved
          /\ (pc[o] = "update_order_seats" /\ pc'[o] # "update_order_seats") =>
                /\ orders'[o].seats = state[o].seats
                /\ orders'[o].expires_at = state'[o].expiresAt
                /\ IF now < state[o].expiresAt
                   THEN pc'[o] = "hold" /\ local'[o].timer = state[o].expiresAt
                   ELSE pc'[o] = "expire_order"
          /\ (pc[o] = "hold" /\ now < state[o].expiresAt) => pc'[o] # "expire_order"
          /\ (pc[o] = "hold" /\ pc'[o] = "payment_status") => now < state[o].expiresAt
          /\ pc[o] \notin HoldPhase \cup {"idle", "started"} =>
                state'[o].seats = state[o].seats]_vars

\* A workflow whose seat change moved the deadline has completed CONFIRMED
\* with its current seats booked, having received proceed-to-payment after
\* its original deadline and before the new one.
C14_Witness ==
    \E o \in Orders :
        /\ Completed(o) /\ state[o].status = OrderStatusConfirmed
        /\ err[o] = NoError
        /\ updates = 1
        /\ state[o].seats # {} /\ orders[o].seats = state[o].seats
        /\ orders[o].expires_at = state[o].expiresAt
        /\ \A s \in state[o].seats : BookedFor(s, o)
        /\ hist[o].deadline < hist[o].proceedAt
        /\ hist[o].proceedAt < state[o].expiresAt

C16_CancelFailsOrderAndReleasesSeats ==
    [][\A o \in Orders :
          /\ (pc[o] = "hold" /\ pc'[o] = "fail_order") =>
                /\ state'[o].status = OrderStatusFailed
                /\ state'[o].lastError = CanceledByUser
                /\ state'[o].seats = state[o].seats
          /\ (pc[o] = "fail_order" /\ state[o].lastError = CanceledByUser
                /\ pc'[o] # "fail_order") =>
                /\ orders'[o].status = OrderStatusFailed
                /\ orders'[o].failure_reason = CanceledByUser
                /\ err'[o] = ErrWorkflowCanceled
                /\ released'[o] = <<state[o].seats>>
                /\ pc'[o] \in {"release_locks", "release_rows"}
          /\ (Completes(o) /\ err'[o] = ErrWorkflowCanceled) =>
                \A s \in state'[o].seats :
                    locks'[s] # o /\ seats'[s].order_id # o]_vars

(***************************************************************************)
(* C17: a workflow that has received proceed-to-payment before its hold    *)
(* expired eventually completes without error, its result carrying the    *)
(* status CONFIRMED, the order id it was started with and its current      *)
(* seats, unless an attempt of ValidatePayment fails or ConfirmOrder fails *)
(* for good.                                                               *)
(***************************************************************************)
CompletedConfirmed(o) ==
    /\ Completed(o) /\ err[o] = NoError /\ released[o] = <<>>
    /\ toResult(o, state[o]).status = OrderStatusConfirmed
    /\ toResult(o, state[o]).orderID = o
    /\ toResult(o, state[o]).seats = orders[o].seats
    /\ orders[o].status = OrderStatusConfirmed

C17_PaymentLeadsToConfirmed ==
    \A o \in Orders :
        (pc[o] = "payment_status" /\ hist[o].proceedAt < state[o].expiresAt)
        ~> \/ CompletedConfirmed(o)
           \/ local[o].lastPaymentErr # NoError
           \/ state[o].lastError = "confirmation failed"

\* The workflow that is followed has completed CONFIRMED after one payment
\* attempt, having received proceed-to-payment one tick before its deadline.
C17_Witness ==
    /\ CompletedConfirmed(Customer)
    /\ state[Customer].paymentAttempts = 1
    /\ state[Customer].seats # {}
    /\ hist[Customer].proceedAt = state[Customer].expiresAt - 1
    /\ \A s \in state[Customer].seats : BookedFor(s, Customer)

(***************************************************************************)
(* C18.  At every scheduling point of a running workflow the booking-      *)
(* status query returns exactly the workflow's in-memory order id, status, *)
(* seats, payment_attempts and last_error and changes nothing; while the   *)
(* workflow waits in the hold phase before the deadline the reply is       *)
(* SEATS_RESERVED with timer_remaining greater than zero.                  *)
(***************************************************************************)
Running(o) == pc[o] \notin {"idle", "done", "panic"}

\* The step is a status request for running workflow o that replies rsp.
StatusQueried(o, rsp) ==
    /\ Running(o)
    /\ rsp = response'
    /\ rsp.op = "status" /\ rsp.order = o

ReturnsMemoryState(o, rsp) ==
    /\ rsp.code = 200
    /\ rsp.status = state[o].status
    /\ rsp.seats = state[o].seats
    /\ rsp.paymentAttempts = state[o].paymentAttempts
    /\ rsp.lastError = state[o].lastError
    /\ UNCHANGED << pc, state, err, local, locks, seats, availableSeats, orders,
                    updates, released, decremented, lockErr, releaseErr, now, hist,
                    lockExpiry, cfg, call, signals >>

C18_QueryReturnsCurrentState ==
    [][\A o \in Orders : \A rsp \in {response'} :
          StatusQueried(o, rsp) =>
              /\ ReturnsMemoryState(o, rsp)
              /\ (pc[o] = "hold" /\ now < state[o].expiresAt) =>
                    /\ rsp.status = OrderStatusSeatsReserved
                    /\ rsp.timerRemaining > 0]_vars

\* C18 as the code has it: timer_remaining is the number of whole seconds
\* left until the deadline, which is zero during the last second.
C18_QueryReturnsWholeSecondsRemaining ==
    [][\A o \in Orders : \A rsp \in {response'} :
          StatusQueried(o, rsp) =>
              /\ ReturnsMemoryState(o, rsp)
              /\ (pc[o] = "hold" /\ now < state[o].expiresAt) =>
                    /\ rsp.status = OrderStatusSeatsReserved
                    /\ rsp.timerRemaining * TicksPerSecond <= state[o].expiresAt - now
                    /\ state[o].expiresAt - now
                          < (rsp.timerRemaining + 1) * TicksPerSecond]_vars

\* A status request has just been answered while the workflow waits in the
\* hold phase with one second and a half left, after a seat update that
\* failed: the reply carries the error and one second.
C18_Witness ==
    /\ response = toStatusResponse(Customer, state[Customer], now)
    /\ pc[Customer] = "hold"
    /\ state[Customer].expiresAt - now = TicksPerSecond + 1
    /\ response.timerRemaining = 1
    /\ response.status = OrderStatusSeatsReserved
    /\ response.lastError = ErrActivity

(***************************************************************************)
(* C19.  The create-order operation replies 201 with status SEATS_RESERVED *)
(* only for an order whose requested seats have been reserved for it, and  *)
(* replies 409 when a requested seat is held or booked by another order.   *)
(***************************************************************************)
HeldOrBookedByAnother(s, o) ==
    \/ locks[s] \notin {NoOrder, o}
    \/ seats[s].status # SeatStatusAvailable /\ seats[s].order_id # o

C19_CreateOrderReportsReservedSeats ==
    [][\A o \in Orders : \A rsp \in {response'} :
          (rsp.op = "create" /\ rsp.order = o) =>
              /\ (rsp.code = 201 /\ rsp.status = OrderStatusSeatsReserved) =>
                    \A s \in rsp.seats : locks'[s] = o /\ ReservedFor(s, o)'
              /\ (\E s \in rsp.seats : HeldOrBookedByAnother(s, o)) =>
                    rsp.code = 409]_vars

(***************************************************************************)
(* C20.  When the booking-status query fails because the workflow is       *)
(* closed and the order row exists, the status operation returns the       *)
(* row's status, seats and failure reason with timer_remaining = 0 and     *)
(* payment_attempts = 0.                                                   *)
(***************************************************************************)
C20_ClosedWorkflowStatusFromRow ==
    [][\A o \in Orders : \A rsp \in {response'} :
          ( /\ Completed(o) /\ QueryFails(o, TRUE)
            /\ orders[o].status # NoRow
            /\ StatusFromStore(o) ) =>
              /\ rsp.code = 200
              /\ rsp.status = orders[o].status
              /\ rsp.seats = orders[o].seats
              /\ rsp.lastError = orders[o].failure_reason
              /\ rsp.timerRemaining = 0
              /\ rsp.paymentAttempts = 0]_vars

(***************************************************************************)
(* C21.  Every workflow that ended FAILED or EXPIRED has left an order row *)
(* with a non-empty failure_reason.                                        *)
(***************************************************************************)
EndedFailedOrExpired(o) ==
    Completed(o) /\ state[o].status \in {OrderStatusFailed, OrderStatusExpired}

C21_TerminalFailureHasReason ==
    \A o \in Orders :
        EndedFailedOrExpired(o) =>
            /\ orders[o].status # NoRow
            /\ orders[o].failure_reason # NoLastError

(***************************************************************************)
(* External cancellation of the workflow (a cancel request to the engine). *)
(***************************************************************************)
ErrCanceled == "canceled"   \* the CanceledError of a cancelled context

\* The engine records a cancel request while the workflow waits in the
\* selector of the hold loop or in the Sleep of the payment loop, with no
\* activity in flight; ctx and every context derived from it are cancelled.
ExternalCancel(o) ==
    /\ pc[o] \in {"hold", "payment_sleep"}
    /\ Step(o, IF pc[o] = "hold" THEN "canceled_hold" ELSE "canceled_payment")
    /\ UNCHANGED << locks, seats, availableSeats, orders, updates, decremented, lockErr,
                    releaseErr >>

\* Cancelled in the hold loop: the timer future fails with CanceledError, its
\* callback changes nothing, and since neither paymentReceived nor canceled
\* is set the loop goes round on the cancelled context without waiting.  It
\* leaves through its already-expired branch once a workflow task sees the
\* deadline passed; the ExpireOrder on the cancelled context does not run,
\* and the deferred block compensates.
CanceledHoldExpires(o) ==
    /\ pc[o] = "canceled_hold"
    /\ state[o].expiresAt - now <= 0
    /\ Return(o, [state[o] EXCEPT !.status = OrderStatusExpired,
                                  !.lastError = ErrReservationExpired],
              ErrReservationExpired)
    /\ UNCHANGED << locks, seats, availableSeats, orders, updates, decremented, lockErr,
                    releaseErr >>

\* Cancelled in the payment loop: Sleep and every ValidatePayment on the
\* cancelled context return CanceledError at once, the attempts run out, the
\* FailOrder on the cancelled context does not run, and the workflow returns
\* lastPaymentErr; the deferred block then compensates.
PaymentLoopCanceled(o) ==
    /\ pc[o] = "canceled_payment"
    /\ Return(o, [state[o] EXCEPT !.paymentAttempts = maxPaymentAttempts,
                                  !.lastError = "payment failed after 3 attempts",
                                  !.status = OrderStatusFailed],
              ErrCanceled)
    /\ UNCHANGED << locks, seats, availableSeats, orders, updates, decremented, lockErr,
                    releaseErr >>

\* The steps of a cancelled workflow.
CanceledSteps(o) == CanceledHoldExpires(o) \/ PaymentLoopCanceled(o)

CancelNext ==
    \/ TimedNext
    \/ ExternalCancel(Customer)
    \/ CanceledHoldExpires(Customer)
    \/ PaymentLoopCanceled(Customer)

\* The engine keeps scheduling the workflow's tasks and activities, and the
\* clock keeps running.
CancelSpec ==
    /\ TimedInit /\ [][CancelNext]_vars
    /\ WF_vars(Steps(Customer) \/ CanceledSteps(Customer))
    /\ WF_vars(Tick)

(***************************************************************************)
(* C22.  A workflow cancelled externally after its seats were reserved     *)
(* eventually exits, and ReleaseSeats has then run to completion on the    *)
(* disconnected context, so that no seat is held for the order any more.   *)
(* (The clock of the model stops at MaxTime; deadlines beyond it are left  *)
(* out.)                                                                   *)
(***************************************************************************)
CanceledExternally(o) ==
    pc[o] \in {"canceled_hold", "canceled_payment"} /\ state[o].expiresAt <= MaxTime

SeatsReleased(o) ==
    /\ released[o] = << state[o].seats >>
    /\ \A s \in state[o].seats : locks[s] # o /\ ~ReservedFor(s, o)

C22_ExternalCancelReleasesSeats ==
    \A o \in Orders :
        CanceledExternally(o) ~> (Completed(o) /\ SeatsReleased(o))

(***************************************************************************)
(* C23.  The expires_at of an order, in workflow memory and in its row,    *)
(* never decreases, and it changes only at the initial reservation and     *)
(* when an update-seats signal has been applied successfully: never on a   *)
(* failed update, on proceed-to-payment or on cancel-booking.              *)
(***************************************************************************)
\* The step starts the workflow's first hold, or ends a seat change with
\* UpdateSeatSelection having returned nil.
InitialReservation(o) == pc[o] = "started"
UpdateApplied(o) == pc[o] # "update_order_seats" /\ pc'[o] = "update_order_seats"

C23_ExpiresAtChangesOnlyForward ==
    [][\A o \in Orders :
          /\ state'[o].expiresAt # state[o].expiresAt =>
                /\ state'[o].expiresAt > state[o].expiresAt
                /\ InitialReservation(o) \/ UpdateApplied(o)
          /\ orders'[o].expires_at # orders[o].expires_at =>
                /\ orders'[o].expires_at > orders[o].expires_at
                /\ orders'[o].expires_at = state'[o].expiresAt
                /\ InitialReservation(o) \/ pc[o] = "update_order_seats"]_vars

\* The order is in its payment phase with the deadline a successful seat
\* update gave it, later than the first one.
C23_Witness ==
    /\ pc[Customer] = "payment_attempt"
    /\ updates = 1
    /\ state[Customer].expiresAt > hist[Customer].deadline
    /\ orders[Customer].expires_at = state[Customer].expiresAt
    /\ hist[Customer].proceedAt > hist[Customer].deadline - HoldDuration

(***************************************************************************)
(* The activities on the two stores, one execution per step, with the TTL  *)
(* of the lock entries, the configured timeout and the reconciler.         *)
(***************************************************************************)
LockBuffer == 1     \* the buffer added to the configured timeout, in ticks

\* Values of SEAT_RESERVATION_TIMEOUT: the default, which equals the hold
\* of the workflow, and a shorter one.
ConfiguredTimeouts == {HoldDuration - 2, HoldDuration}

\* ttl := a.cfg.SeatReservationTimeout + time.Minute
LockTTL(timeout) == timeout + LockBuffer

\* The lock entries, their expiry instants and the seat rows.
Stores == [locks |-> locks, lockExpiry |-> lockExpiry, seats |-> seats]

\* ReleaseLocks: the compare-and-delete script on every seat of the list.
ReleaseLocks(st, seatIDs, orderID) ==
    [st EXCEPT
        !.locks = [s \in Seats |->
                      IF s \in seatIDs THEN ReleaseLock(st.locks, s, orderID)[s]
                      ELSE st.locks[s]],
        !.lockExpiry = [s \in Seats |->
                           IF s \in seatIDs /\ st.locks[s] = orderID THEN 0
                           ELSE st.lockExpiry[s]]]

\* LockSeats at instant t: both passes, SET with the ttl.
LockSeats(st, seatIDs, orderID, t, ttl) ==
    IF LockedByOther(st.locks, seatIDs, orderID) THEN st
    ELSE [st EXCEPT
            !.locks = SetLocks(st.locks, seatIDs, orderID),
            !.lockExpiry = [s \in Seats |->
                               IF s \in seatIDs THEN t + ttl ELSE st.lockExpiry[s]]]

\* BookingActivities.ReserveSeats
ReserveSeats(st, seatIDs, orderID, t, ttl) ==
    LET locked == LockSeats(st, seatIDs, orderID, t, ttl)
        marked == [locked EXCEPT !.seats = MarkSeatsReserved(@, seatIDs, orderID)]
    IN  IF LockedByOther(st.locks, seatIDs, orderID) THEN [err |-> ErrActivity, stores |-> st]
        ELSE IF MarkSeatsReservedOK(locked.seats, seatIDs) THEN [err |-> NoError, stores |-> marked]
        ELSE [err |-> ErrActivity, stores |-> ReleaseLocks(marked, seatIDs, orderID)]

\* A faulty ReleaseSeats that fails when a lock entry is not the order's.
ReleaseSeatsOwnedOnly(st, seatIDs, orderID, dbError) ==
    LET unlocked == ReleaseLocks(st, seatIDs, orderID) IN
    IF dbError \/ \E s \in seatIDs : st.locks[s] # orderID
    THEN [err |-> ErrActivity, stores |-> unlocked]
    ELSE [err |-> NoError, stores |-> [unlocked EXCEPT !.seats = MarkSeatsAvailable(@, seatIDs)]]

\* BookingActivities.ReleaseSeats; with dbError, MarkSeatsAvailable fails.
ReleaseSeats(st, seatIDs, orderID, dbError) ==
    LET unlocked == ReleaseLocks(st, seatIDs, orderID) IN
    IF dbError THEN [err |-> ErrActivity, stores |-> unlocked]
    ELSE [err |-> NoError, stores |-> [unlocked EXCEPT !.seats = MarkSeatsAvailable(@, seatIDs)]]

\* The best-effort re-acquisition of the old seats in UpdateSeatSelection.
ReacquireOld(st, old, orderID, t, ttl) ==
    LET locked == LockSeats(st, old, orderID, t, ttl) IN
    [locked EXCEPT !.seats = MarkSeatsReserved(@, old, orderID)]

\* BookingActivities.UpdateSeatSelection
UpdateSeatSelection(st, old, new, orderID, t, ttl) ==
    LET freed == IF old = {} THEN st
                 ELSE [ReleaseLocks(st, old, orderID)
                          EXCEPT !.seats = MarkSeatsAvailable(@, old)]
        locked == LockSeats(freed, new, orderID, t, ttl)
        marked == [locked EXCEPT !.seats = MarkSeatsReserved(@, new, orderID)]
    IN  IF new = {} THEN [err |-> NoError, stores |-> freed]
        ELSE IF LockedByOther(freed.locks, new, orderID)
        THEN [err |-> ErrActivity, stores |-> ReacquireOld(freed, old, orderID, t, ttl)]
        ELSE IF MarkSeatsReservedOK(locked.seats, new) THEN [err |-> NoError, stores |-> marked]
        ELSE [err |-> ErrActivity, stores |-> ReacquireOld(ReleaseLocks(marked, new, orderID), old, orderID, t, ttl)]

\* A sweep that takes every lock entry for an orphan, whatever its seat row says.
OrphanedAnyLock(st, s) ==
    st.locks[s] # NoOrder

\* A lock entry is orphaned: its seat row is not reserved or booked for the
\* order that owns the entry.
Orphaned(st, s) ==
    /\ st.locks[s] # NoOrder
    /\ ~ ( /\ st.seats[s].status \in {SeatStatusReserved, SeatStatusBooked}
           /\ st.seats[s].order_id = st.locks[s] )

\* BookingActivities.ReconcileSeatLocks: one sweep over the flight.
ReconcileSeatLocks(st) ==
    [st EXCEPT
        !.locks = [s \in Seats |-> IF Orphaned(st, s) THEN NoOrder ELSE st.locks[s]],
        !.lockExpiry = [s \in Seats |-> IF Orphaned(st, s) THEN 0 ELSE st.lockExpiry[s]]]

\* The activity execution op of order o ended with outcome r; it came
\* again when the execution before it was the same one and succeeded.
Executed(op, o, r) ==
    /\ locks' = r.stores.locks
    /\ lockExpiry' = r.stores.lockExpiry
    /\ seats' = r.stores.seats
    /\ call' = [op |-> op, order |-> o, err |-> r.err,
                again |-> call.op = op /\ call.order = o /\ call.err = NoError]

\* What the steps of this section leave alone.
StoreFrame ==
    UNCHANGED << err, availableSeats, orders, released, decremented, lockErr,
                 releaseErr, response, hist, cfg, signals >>

\* The workflow of o moves to position p in state st after n executions of
\* its running activity.
Move(o, p, st, n) ==
    /\ pc' = [pc EXCEPT ![o] = p]
    /\ state' = [state EXCEPT ![o] = st]
    /\ local' = [local EXCEPT ![o] = [NoLocals EXCEPT !.attempt = n]]
    /\ StoreFrame

\* The earlier order as above, one of the configured timeouts, and the
\* earlier order's lock entry as set at instant 0.
StoreInit ==
    /\ EarlierOrder
    /\ cfg \in ConfiguredTimeouts
    /\ lockExpiry = [s \in Seats |-> IF locks[s] = NoOrder THEN 0 ELSE LockTTL(cfg)]

\* The workflow starts with input S and computes its deadline.
StartWorkflow(o, S) ==
    /\ pc[o] = "idle" /\ S # {}
    /\ Move(o, "reserving",
            [NoState EXCEPT !.seats = S, !.expiresAt = now + HoldDuration,
                            !.status = OrderStatusSeatsReserved], 0)
    /\ UNCHANGED << locks, lockExpiry, seats, call, updates, now >>

\* The engine executes ReserveSeats: for the first time, again after an
\* error, or again because the result of an execution did not reach it.
ExecuteReserveSeats(o) ==
    LET r == ReserveSeats(Stores, state[o].seats, o, now, LockTTL(cfg)) IN
    /\ pc[o] \in {"reserving", "reserved", "reserve_failed"}
    /\ local[o].attempt < MaximumAttempts
    /\ Executed("ReserveSeats", o, r)
    /\ Move(o, IF r.err = NoError THEN "reserved" ELSE "reserve_failed", state[o],
            local[o].attempt + 1)
    /\ UNCHANGED << updates, now >>

\* The workflow receives the result of ReserveSeats: it enters the hold
\* loop, or, after the last attempt, fails and compensates.
ReserveSeatsReturns(o) ==
    /\ \/ pc[o] = "reserved" /\ Move(o, "holding", state[o], 0)
       \/ /\ pc[o] = "reserve_failed" /\ local[o].attempt = MaximumAttempts
          /\ Move(o, "releasing",
                  [state[o] EXCEPT !.status = OrderStatusFailed,
                                   !.lastError = ErrActivity], 0)
    /\ UNCHANGED << locks, lockExpiry, seats, call, updates, now >>

\* update-seats with payload N: one execution of UpdateSeatSelection and
\* the handler's reaction to its result.
ExecuteUpdateSeatSelection(o, N) ==
    LET r == UpdateSeatSelection(Stores, state[o].seats, N, o, now, LockTTL(cfg)) IN
    /\ pc[o] = "holding" /\ now < state[o].expiresAt
    /\ updates < MaxUpdates
    /\ updates' = updates + 1
    /\ Executed("UpdateSeatSelection", o, r)
    /\ Move(o, "holding",
            IF r.err = NoError
            THEN [state[o] EXCEPT !.seats = N, !.expiresAt = now + HoldDuration]
            ELSE [state[o] EXCEPT !.lastError = ErrActivity], 0)
    /\ UNCHANGED now

\* The hold timer fires or cancel-booking arrives: the deferred block runs.
LeaveHold(o) ==
    /\ pc[o] = "holding"
    /\ Move(o, "releasing",
            IF now >= state[o].expiresAt
            THEN [state[o] EXCEPT !.status = OrderStatusExpired,
                                  !.lastError = ErrReservationExpired]
            ELSE [state[o] EXCEPT !.status = OrderStatusFailed,
                                  !.lastError = CanceledByUser], 0)
    /\ UNCHANGED << locks, lockExpiry, seats, call, updates, now >>

\* The engine executes the compensating ReleaseSeats: for the first time,
\* again after an error, or again because a result did not reach it.
ExecuteReleaseSeats(o, dbError) ==
    LET r == ReleaseSeats(Stores, state[o].seats, o, dbError) IN
    /\ pc[o] \in {"releasing", "released", "release_failed"}
    /\ local[o].attempt < MaximumAttempts
    /\ Executed("ReleaseSeats", o, r)
    /\ Move(o, IF r.err = NoError THEN "released" ELSE "release_failed", state[o],
            local[o].attempt + 1)
    /\ UNCHANGED << updates, now >>

\* The deferred block receives the result of ReleaseSeats, logs an error
\* of the last attempt, and the workflow closes.
CloseWorkflow(o) ==
    /\ \/ pc[o] = "released"
       \/ pc[o] = "release_failed" /\ local[o].attempt = MaximumAttempts
    /\ Move(o, "closed", state[o], 0)
    /\ UNCHANGED << locks, lockExpiry, seats, call, updates, now >>

\* SeatReconciliationWorkflow runs ReconcileSeatLocks on the flight.
Reconcile ==
    /\ Executed("ReconcileSeatLocks", NoOrder,
                [err |-> NoError, stores |-> ReconcileSeatLocks(Stores)])
    /\ call.op # "ReconcileSeatLocks"
    /\ UNCHANGED << pc, state, local, updates, now >>
    /\ StoreFrame

\* The clock advances by one tick; lock entries whose TTL has run out are gone.
StoreTick ==
    /\ now < MaxTime
    /\ now' = now + 1
    /\ locks' = [s \in Seats |-> IF lockExpiry[s] <= now + 1 THEN NoOrder ELSE locks[s]]
    /\ lockExpiry' = [s \in Seats |-> IF lockExpiry[s] <= now + 1 THEN 0 ELSE lockExpiry[s]]
    /\ UNCHANGED << pc, state, local, seats, updates, call >>
    /\ StoreFrame

\* Only the followed order acts.
StoreNext ==
    \/ \E o \in {Customer} :
          \/ \E S \in SUBSET Seats : StartWorkflow(o, S)
          \/ ExecuteReserveSeats(o)
          \/ ReserveSeatsReturns(o)
          \/ \E N \in SUBSET Seats : ExecuteUpdateSeatSelection(o, N)
          \/ LeaveHold(o)
          \/ \E dbError \in BOOLEAN : ExecuteReleaseSeats(o, dbError)
          \/ CloseWorkflow(o)
    \/ Reconcile
    \/ StoreTick

StoreSpec == StoreInit /\ [][StoreNext]_vars

\* C24: executing ReserveSeats again for the same order and the same seat
\* list after it has succeeded, with its lock entries and rows in place,
\* returns success and leaves the lock entries and the seat rows unchanged.
C24_ReserveSeatsReexecutionIsNoOp ==
    [][\A o \in Orders :
          /\ pc[o] = "reserved"
          /\ call.op = "ReserveSeats" /\ call.order = o /\ call.err = NoError
          /\ \A s \in state[o].seats : locks[s] = o /\ ReservedFor(s, o)
          /\ ExecuteReserveSeats(o)
          => /\ call'.err = NoError
             /\ locks' = locks
             /\ seats' = seats]_vars

\* C25: ReleaseSeats executed twice in succession for the same order and
\* seat list succeeds both times and leaves the lock entries and the seat
\* rows as the first execution left them; an execution also succeeds when
\* some of the seats are already released.
C25_ReleaseSeatsIsIdempotent ==
    [][\A o \in Orders :
          ExecuteReleaseSeats(o, FALSE) =>
              /\ call'.err = NoError
              /\ \A s \in state[o].seats : locks'[s] # o /\ ~ReservedFor(s, o)'
              /\ call'.again =>
                    /\ locks' = locks
                    /\ lockExpiry' = lockExpiry
                    /\ seats' = seats]_vars

\* ReleaseSeats has just succeeded a second time in succession on two seats.
C25_Witness ==
    /\ call.op = "ReleaseSeats" /\ call.order = Customer
    /\ call.again /\ call.err = NoError
    /\ pc[Customer] = "released"
    /\ state[Customer].seats = Seats

\* C26: a seat row left reserved for an order whose workflow has closed is
\* available again once the reconciler has swept the flight.
C26_ReconcilerRepairsStaleRows ==
    [][Reconcile =>
          \A s \in Seats, o \in Orders :
              pc[o] = "closed" /\ ReservedFor(s, o) => IsAvailable(s)']_vars

\* C27: under every configured timeout, a lock entry an order holds on a
\* seat of its selection expires strictly later than the order's current
\* expiresAt.
C27_LockOutlivesHold ==
    \A o \in Orders, s \in Seats :
        /\ pc[o] \in {"reserved", "holding"}
        /\ s \in state[o].seats
        /\ locks[s] = o
        => lockExpiry[s] > state[o].expiresAt

\* C28: an update-seats signal with an empty list is carried out: every
\* seat the order held is released (no lock entry of the order, row
\* available), the seat set becomes empty, the status stays SEATS_RESERVED
\* and the deadline is set anew.
C28_EmptyUpdateReleasesAllSeats ==
    [][\A o \in Orders :
          UpdateApplied(o) /\ local'[o].newSeats = {} =>
              /\ state'[o].seats = {}
              /\ state'[o].status = OrderStatusSeatsReserved
              /\ state'[o].expiresAt = now + HoldDuration
              /\ \A s \in state[o].seats : locks'[s] # o /\ IsAvailable(s)']_vars

\* The workflow is back in its hold loop after an empty update made later
\* than its start: no seats, a later deadline, both written to the row.
C28_Witness ==
    /\ pc[Customer] = "hold"
    /\ updates = 1
    /\ state[Customer].seats = {}
    /\ state[Customer].status = OrderStatusSeatsReserved
    /\ state[Customer].expiresAt > hist[Customer].deadline
    /\ orders[Customer].seats = {}
    /\ orders[Customer].expires_at = state[Customer].expiresAt
    /\ \A s \in Seats : locks[s] # Customer /\ ~ReservedFor(s, Customer)

\* C29: every change of an order's status, in workflow memory and in the
\* order row, is one of CREATED -> SEATS_RESERVED | FAILED,
\* SEATS_RESERVED -> PAYMENT_PROCESSING | EXPIRED | FAILED,
\* PAYMENT_PROCESSING -> CONFIRMED | FAILED; no other change of the row's
\* status is carried out.
C29_StatusChangesAreListedTransitions ==
    [][LET listed == { << OrderStatusCreated, OrderStatusSeatsReserved >>,
                       << OrderStatusCreated, OrderStatusFailed >>,
                       << OrderStatusSeatsReserved, OrderStatusPaymentProcessing >>,
                       << OrderStatusSeatsReserved, OrderStatusExpired >>,
                       << OrderStatusSeatsReserved, OrderStatusFailed >>,
                       << OrderStatusPaymentProcessing, OrderStatusConfirmed >>,
                       << OrderStatusPaymentProcessing, OrderStatusFailed >> }
       IN  \A o \in Orders :
              /\ state'[o].status # state[o].status =>
                    << state[o].status, state'[o].status >> \in listed
              /\ orders[o].status # NoRow /\ orders'[o].status # orders[o].status =>
                    << orders[o].status, orders'[o].status >> \in listed]_vars

\* C30: the pass of LockSeats that writes the entries makes the order the
\* owner of every requested seat and changes nothing else, or, when a
\* requested seat has an entry owned by a different order, changes no
\* entry at all; the pass that reads the entries changes none.
C30_LockSeatsAllOrNothing ==
    [][\A o \in Orders :
          LET requested == IF pc[o] \in {"update_check_new", "update_lock_new"}
                           THEN local[o].newSeats ELSE state[o].seats
          IN  /\ pc'[o] # pc[o] /\ pc[o] \in {"reserve_lock", "update_lock_new", "update_lock_old"}
                 => IF LockedByOther(locks, requested, o)
                    THEN locks' = locks
                    ELSE \A s \in Seats :
                            locks'[s] = IF s \in requested THEN o ELSE locks[s]
              /\ pc'[o] # pc[o] /\ pc[o] \in {"reserve_check", "update_check_new", "update_check_old"}
                 => locks' = locks]_vars

(***************************************************************************)
(* SeatLockRepo on its own: orders call LockSeats, and the per-seat        *)
(* scripts of ReleaseLocks and ExtendLocks, in any order along the clock.  *)
(***************************************************************************)
\* A faulty script that extends the entry whoever owns it.
ExtendLockAnyOwner(st, seatID, orderID, t, ttl) ==
    IF st.locks[seatID] # NoOrder
    THEN [st EXCEPT !.lockExpiry[seatID] = t + ttl] ELSE st

\* One iteration of ExtendLocks: the compare-and-pexpire Lua script.
ExtendLock(st, seatID, orderID, t, ttl) ==
    IF st.locks[seatID] = orderID
    THEN [st EXCEPT !.lockExpiry[seatID] = t + ttl] ELSE st

\* LockSeats called for order o on the seats S with the configured TTL.
SeatLockRepo_LockSeats(o, S) ==
    /\ Executed("LockSeats", o,
                [err |-> IF LockedByOther(locks, S, o) THEN ErrActivity ELSE NoError,
                 stores |-> LockSeats(Stores, S, o, now, LockTTL(cfg))])
    /\ UNCHANGED << pc, state, local, seats, updates, now >>
    /\ StoreFrame

\* The script of ReleaseLocks runs for order o on seat s.
SeatLockRepo_ReleaseLock(o, s) ==
    /\ Executed("ReleaseLocks", o,
                [err |-> NoError, stores |-> ReleaseLocks(Stores, {s}, o)])
    /\ UNCHANGED << pc, state, local, seats, updates, now >>
    /\ StoreFrame

\* The script of ExtendLocks runs for order o on seat s.
SeatLockRepo_ExtendLock(o, s) ==
    /\ Executed("ExtendLocks", o,
                [err |-> NoError, stores |-> ExtendLock(Stores, s, o, now, LockTTL(cfg))])
    /\ UNCHANGED << pc, state, local, seats, updates, now >>
    /\ StoreFrame

LockRepoNext ==
    \/ \E o \in Orders :
          \/ \E S \in SUBSET Seats : SeatLockRepo_LockSeats(o, S)
          \/ \E s \in Seats : SeatLockRepo_ReleaseLock(o, s)
          \/ \E s \in Seats : SeatLockRepo_ExtendLock(o, s)
    \/ StoreTick

LockRepoSpec == Init /\ [][LockRepoNext]_vars

\* C31: the script of ReleaseLocks or ExtendLocks run for an order on a
\* seat returns no error, deletes (extends) the entry when the order owns
\* it, and leaves every other entry, in particular an entry owned by
\* another order and a missing one, with its value and expiry.
C31_OnlyOwnerReleasesOrExtends ==
    [][\A o \in Orders, s \in Seats :
          /\ SeatLockRepo_ReleaseLock(o, s) \/ SeatLockRepo_ExtendLock(o, s)
             => /\ call'.err = NoError
                /\ \A t \in Seats :
                      t # s \/ locks[t] # o =>
                          locks'[t] = locks[t] /\ lockExpiry'[t] = lockExpiry[t]
          /\ SeatLockRepo_ReleaseLock(o, s) /\ locks[s] = o
             => locks'[s] = NoOrder
          /\ SeatLockRepo_ExtendLock(o, s) /\ locks[s] = o
             => locks'[s] = o /\ lockExpiry'[s] = now + LockTTL(cfg)]_vars

\* ExtendLocks has just run for the followed order while every entry is
\* owned by the other order and still expires as set at instant 0.
C31_Witness ==
    /\ call.op = "ExtendLocks" /\ call.order = Customer /\ call.err = NoError
    /\ now > 0
    /\ \A s \in Seats : locks[s] = OtherOrder /\ lockExpiry[s] = LockTTL(cfg)

C33_BookingAndCounterAreOneStep ==
    [][\A o \in Orders :
        LET booked == {s \in Seats : ~ BookedFor(s, o) /\ BookedFor(s, o)'} IN
        /\ availableSeats' = availableSeats - Cardinality(booked)
        /\ decremented'[o] = decremented[o] + Cardinality(booked)]_vars

\* ---------------------------------------------------------------------------
\* C34. ReleaseSeats executed for an order, the compensation after a failed
\* CreateOrder or ReserveSeats included, never changes a seat row that is
\* reserved or booked for a different order.
C34_ReleaseSeatsSparesOtherOrders ==
    [][\A o \in Orders :
        ReleaseSeats_MarkAvailable(o) =>
            \A s \in Seats :
                seats[s].order_id \notin {NoOrder, o} => seats'[s] = seats[s]]_vars

\* ---------------------------------------------------------------------------
\* C35. A status query never reports CONFIRMED for an order whose
\* ConfirmOrder has not completed successfully, and no order is reported
\* CONFIRMED by one query and FAILED by a later one.
C35_ConfirmedReportedOnlyAfterConfirmOrder ==
    [][\A o \in Orders :
        /\ (GetOrderStatus(o) /\ response'.status = OrderStatusConfirmed)
               => CompletedConfirmed(o)
        /\ (Running(o) /\ toStatusResponse(o, state[o], now).status = OrderStatusConfirmed)
               => toStatusResponse(o, state'[o], now').status # OrderStatusFailed]_vars

\* ---------------------------------------------------------------------------
\* C36. When a workflow has completed and its order row exists, the status of
\* the row equals the final in-memory status of the workflow, whichever exit
\* path was taken, a failure of ReserveSeats after CreateOrder included.
C36_RowStatusMatchesFinalStatus ==
    \A o \in Orders :
        (Completed(o) /\ orders[o].status # NoRow)
            => orders[o].status = state[o].status

\* ---------------------------------------------------------------------------
\* C37. Whenever no execution of ConfirmOrder is in progress, the
\* available-seats counter equals the initial number of seats minus the
\* number of booked seat rows: every step that ends an execution of
\* ConfirmOrder, by success or by error, leaves the two in agreement.
C37_CounterMatchesBookedRows ==
    [][LET confirming == {"confirm_order", "confirm_book", "confirm_counter",
                          "confirm_unlock"}
       IN  ( /\ \E o \in Orders : pc[o] \in confirming
             /\ \A o \in Orders : pc'[o] \notin confirming )
           => availableSeats' =
                NumSeats - Cardinality({s \in Seats : seats'[s].status = SeatStatusBooked})]_vars

\* ---------------------------------------------------------------------------
\* C38. After UpdateSeatSelection has failed, the order holds exactly its old
\* seats, each with a lock entry owned by the order and a seat row reserved
\* for it, and no seat that is only in the new selection has a lock entry or
\* a reserved row for the order.
C38_FailedUpdateKeepsOldSeats ==
    [][\A o \in Orders :
        ( /\ pc[o] \in SeatChange \ {"update_order_seats"}
          /\ pc'[o] \notin SeatChange )
        => /\ state'[o].seats = state[o].seats
           /\ \A s \in state[o].seats : locks'[s] = o /\ ReservedFor(s, o)'
           /\ \A s \in local[o].newSeats \ state[o].seats :
                  locks'[s] # o /\ ~ ReservedFor(s, o)']_vars

\* ---------------------------------------------------------------------------
\* C39. While an order is in its hold phase, every seat of its selection has
\* a lock entry owned by the order: a LockSeats of another order running at
\* the same time does not remove or overwrite it.
C39_HeldSeatsStayLocked ==
    \A o \in Orders :
        pc[o] = "hold" => \A s \in state[o].seats : locks[s] = o

(***************************************************************************)
(* Signals sent after proceed-to-payment was received.                     *)
(***************************************************************************)
\* The signals a client sends to a workflow that has left its hold loop.
LateSignals == {"cancel-booking", "update-seats"}

\* Positions of the workflow after the selector has received
\* proceed-to-payment: the payment loop and ConfirmOrder.
AfterProceed ==
    {"payment_status", "payment_attempt", "payment_sleep",
     "confirm_order", "confirm_book", "confirm_counter", "confirm_unlock"}

\* A client signals workflow o, which has left its hold loop: the engine puts
\* the signal into its channel, where it waits for a Receive.
LateSignal(o, sig) ==
    /\ pc[o] \in AfterProceed
    /\ sig \notin signals[o]
    /\ signals' = [signals EXCEPT ![o] = @ \cup {sig}]
    /\ UNCHANGED << pc, state, err, local, locks, seats, availableSeats, orders, updates,
                    released, decremented, lockErr, releaseErr, now, response, hist,
                    lockExpiry, cfg, call >>

LateNext ==
    \/ TimedNext
    \/ \E sig \in LateSignals : LateSignal(Customer, sig)

LateSpec == TimedInit /\ [][LateNext]_vars

\* ---------------------------------------------------------------------------
\* C40. Signals that arrive after proceed-to-payment was consumed do not
\* affect the outcome: with a cancel-booking or update-seats signal waiting,
\* the workflow neither cancels nor expires nor returns to its hold loop, its
\* seats and deadline (in memory and in the row) stay what they were, and it
\* ends CONFIRMED, or FAILED with the error of the payment or confirmation.
C40_LateSignalsHaveNoEffect ==
    [][\A o \in Orders :
        signals[o] # {} =>
            /\ state'[o].seats = state[o].seats
            /\ state'[o].expiresAt = state[o].expiresAt
            /\ orders'[o].seats = orders[o].seats
            /\ orders'[o].expires_at = orders[o].expires_at
            /\ pc'[o] \notin HoldPhase \cup {"expire_order"}
            /\ state'[o].status # OrderStatusExpired
            /\ state'[o].lastError \notin {CanceledByUser, ErrReservationExpired}
            /\ local'[o].exitErr # ErrWorkflowCanceled
            /\ Completes(o) =>
                  \/ state'[o].status = OrderStatusConfirmed /\ signals'[o] = {}
                  \/ state'[o].status = OrderStatusFailed /\ err'[o] # NoError]_vars

\* The workflow has completed FAILED after its payment was declined, with a
\* cancel-booking and an update-seats signal left in its channels.
C40_Witness ==
    /\ Completed(Customer)
    /\ signals[Customer] = LateSignals
    /\ state[Customer].status = OrderStatusFailed
    /\ state[Customer].paymentAttempts > 0

====
